---- MODULE Spec2Model ----
(***************************************************************************)
(* Passport-photo sheet generator: the layout calculation of               *)
(* POST /api/generate-layout (server/routes.ts), the preview, image and    *)
(* PDF renderers, the e-mail accounts (EmailAuthService over the storage)  *)
(* and the key fallback of POST /api/remove-background.                    *)
(*                                                                         *)
(* Lengths are integers: millimetres for the settings (the client's       *)
(* sliders step by 1 mm), pixels for everything the handler computes.      *)
(* A JavaScript quotient n / d is kept as the pair (n, d) and only turned  *)
(* into an integer by Math.round, Math.floor or Math.ceil, as the code     *)
(* does.  pageUtilization, which the code keeps as a double, is kept as    *)
(* numerator and denominator.                                              *)
(***************************************************************************)
EXTENDS Integers, Sequences, FiniteSets, TLC

VARIABLES
  settings,   \* the settings of the generate-layout request
  plan,       \* the values the layout calculation holds at its end
  pc,         \* "received" until the handler has run, then "planned"
  layouts,    \* the layout results saved so far, in the order of saving
  page,       \* the page the last renderer request produced
  backend,    \* which storage is exported: "db" (DatabaseStorage) or "mem" (MemStorage)
  users,      \* the user records; a user's id is its index
  usersByEmail, \* MemStorage's index from e-mail to user record
  pending,    \* the pending registrations
  now,        \* the clock
  mails,      \* the verification codes mailed so far, with their addressees
  reply,      \* the last account request: address, code, answer
  env,        \* process.env: the names of the variables that are set
  apiKeys,    \* the Remove.bg keys that are configured, in list order
  image,      \* the uploaded image's record
  rbpc,       \* where the remove-background request stands
  keyIndex,   \* the loop's i + 1: the position in apiKeys of the key being tried
  calls,      \* the calls made to Remove.bg, in order, with their outcome
  response,   \* what the remove-background request answered
  presets,    \* the stored presets
  presetReply, \* what the last preset request answered
  layoutResults, \* the layout results table: rows with id, in the order of saving
  processed,  \* the processed files in uploads/: name to what the file shows
  rendered,   \* what the last photo request showed
  verifications, \* the e-mail verifications table
  images,     \* MemStorage's images: the ids of the stored ones, in upload order
  uploads,    \* how many images were uploaded so far
  inflight,   \* the images of the generate-layout requests that await sharp
  effectTimer, \* the client's auto-generate effect has a timeout pending
  cropTimers, \* how many timeouts of handleCropChange are pending
  issued,     \* how many generate-layout requests the client has sent
  outstanding, \* the client's requests that are not answered yet
  failed,     \* the client's requests that were answered with an error
  layoutResult \* the client's layoutResult: the request whose result it is, 0 for null

layoutVars == <<settings, plan, pc, layouts, page>>
authVars == <<backend, users, usersByEmail, pending, now, mails, reply>>
bgVars == <<env, apiKeys, image, rbpc, keyIndex, calls, response>>
presetVars == <<presets, presetReply>>
\* the state of the parts that the layout, account and background-removal
\* requests leave alone
sourceVars == <<layoutResults, processed, rendered>>
cleanupVars == <<verifications>>
memVars == <<images, uploads, inflight>>
clientVars == <<effectTimer, cropTimers, issued, outstanding, failed, layoutResult>>
restVars == <<presetVars, sourceVars, cleanupVars, memVars, clientVars>>
vars == <<layoutVars, authVars, bgVars, restVars>>

----------------------------------------------------------------------------
(* Program constants *)

A4_WIDTH_MM == 210
A4_HEIGHT_MM == 297
DPI == 300
PREVIEW_DPI == 150
SIDE_MARGIN_MM == 10
BOTTOM_MARGIN_MM == 10
DEFAULT_TOP_MARGIN_MM == 10
DEFAULT_SPACING_MM == 5

MIN_WIDTH == 10
MAX_WIDTH == 100
MIN_HEIGHT == 10
MAX_HEIGHT == 150
MIN_QUANTITY == 1
MAX_QUANTITY == 20
MIN_SPACING == 0
MAX_SPACING == 20
MIN_TOP_MARGIN == 5
MAX_TOP_MARGIN == 50

\* quantity <= 3: single row, scaled only when needed
SMALL_QUANTITY == 3
\* quantity <= 8: single row, always scaled
ROW_QUANTITY == 8
\* a verification code is valid for 15 minutes
EXPIRY_MS == 15 * 60 * 1000
\* the safety factor 0.98 as the fraction 98 / 100
SAFETY_NUM == 98
SAFETY_DEN == 100

----------------------------------------------------------------------------
(* Bounds of the model: how many sample points are taken from each range   *)

WidthSamples == 6
HeightSamples == 4
SpacingSamples == 4
TopMarginSamples == 2
\* sample points per range for the settings that are rendered
RenderSamples == 1
\* layout results the store holds at most
MaxLayouts == 1
\* user records at most, and how far the clock runs (in clock steps)
MaxUsers == 2
MaxTime == 2
\* generate-layout requests the client sends at most
MaxRequests == 3
\* uploads beyond MemStorage's limit of images
MaxExtraUploads == 1
\* layout results saved in MemStorage at most
MaxMemLayouts == 1
\* e-mail verifications saved at most
MaxVerifications == 2
\* layout results saved at most
MaxLayoutRows == 2
\* crops saved over the original at most
MaxCrops == 1
\* how many of the ten key variables of the environment are looked at
MaxKeys == 3
\* presets stored at most
MaxPresets == 3

\* lo, hi and Samples - 1 evenly spread points between them
Sample(lo, hi, n) == { lo + (k * (hi - lo)) \div n : k \in 0..n }

\* Passport 35 x 45, visa 51 x 51 and ID card 25 x 35 presets, and sizes at
\* which a scaled length falls exactly half-way between two pixels
Widths == Sample(MIN_WIDTH, MAX_WIDTH, WidthSamples) \cup {13, 25, 35, 51, 86, 93}
Heights == Sample(MIN_HEIGHT, MAX_HEIGHT, HeightSamples) \cup {13, 35, 51}
Quantities == MIN_QUANTITY..MAX_QUANTITY
Spacings == Sample(MIN_SPACING, MAX_SPACING, SpacingSamples) \cup {1, 17, 18}
TopMargins == Sample(MIN_TOP_MARGIN, MAX_TOP_MARGIN, TopMarginSamples) \cup {10}

\* The layout values; a string is the sequence of its characters, so that
\* String.includes can be computed
Word_auto == <<"a", "u", "t", "o">>
Word_top == <<"t", "o", "p">>
Word_middle == <<"m", "i", "d", "d", "l", "e">>
Word_down == <<"d", "o", "w", "n">>
Word_left == <<"l", "e", "f", "t">>
Word_right == <<"r", "i", "g", "h", "t">>
Dash == <<"-">>
Layouts ==
  {Word_auto} \cup
  { v \o Dash \o h : v \in {Word_top, Word_middle, Word_down},
                     h \in {Word_left, Word_middle, Word_right} }

\* photoSettingsSchema: the settings a request may carry.  The layout
\* calculation does not read the layout value; it is left at its default.
ValidSettings ==
  [width : Widths, height : Heights, quantity : Quantities,
   spacing : Spacings, topMargin : TopMargins, layout : {Word_auto}]

\* the settings whose layout results are rendered
RenderSettings ==
  [width : Sample(MIN_WIDTH, MAX_WIDTH, RenderSamples) \cup {35},
   height : Sample(MIN_HEIGHT, MAX_HEIGHT, RenderSamples) \cup {45},
   quantity : Quantities,
   spacing : Sample(MIN_SPACING, MAX_SPACING, RenderSamples) \cup {5},
   topMargin : Sample(MIN_TOP_MARGIN, MAX_TOP_MARGIN, RenderSamples) \cup {10},
   layout : Layouts]

----------------------------------------------------------------------------
(* JavaScript arithmetic *)

\* x || d on a number: 0 is falsy
OrDefault(x, d) == IF x = 0 THEN d ELSE x

\* Math.round(n / d) for d > 0: floor(n / d + 0.5)
MathRound(n, d) == (2 * n + d) \div (2 * d)

\* Math.floor(n / d) and Math.ceil(n / d) for d > 0
MathFloor(n, d) == n \div d
MathCeil(n, d) == (n + d - 1) \div d

Min(a, b) == IF a <= b THEN a ELSE b

\* Math.round(mm * MM_TO_PIXELS) with MM_TO_PIXELS = dpi / 25.4.  The value
\* mm * dpi / 25.4 is never half-way between two integers for integer mm.
MmToPx(mm, dpi) == MathRound(mm * dpi * 10, 254)

\* Math.round(p * scale) where scale is the double n / d.  When p * n / d is
\* exactly half-way between two integers, the rounding error of the double
\* product decides between them: down says that it fell below the half.
IsTie(n, d) == (2 * n) % (2 * d) = d
RoundScaled(p, n, d, down) ==
  IF IsTie(p * n, d) /\ down THEN MathFloor(p * n, d) ELSE MathRound(p * n, d)

----------------------------------------------------------------------------
(* POST /api/generate-layout: the layout calculation *)

a4WidthPx == MmToPx(A4_WIDTH_MM, DPI)
a4HeightPx == MmToPx(A4_HEIGHT_MM, DPI)
sideMargin == MmToPx(SIDE_MARGIN_MM, DPI)
bottomMargin == MmToPx(BOTTOM_MARGIN_MM, DPI)
topMargin(s) == MmToPx(OrDefault(s.topMargin, DEFAULT_TOP_MARGIN_MM), DPI)
availableWidth == a4WidthPx - (2 * sideMargin)
availableHeight(s) == a4HeightPx - topMargin(s) - bottomMargin

\* the gap between photos the planner uses
spacingPx(s) == MmToPx(OrDefault(s.spacing, DEFAULT_SPACING_MM), DPI)

\* mutant: the gap after the last photo of a row is counted
maxPhotosPerRowAtFullSize_NoGap(aw, sp, pw) == MathFloor(aw, pw + sp)

\* how many photos fit in a row at full size
maxPhotosPerRowAtFullSize(aw, sp, pw) == MathFloor(aw + sp, pw + sp)

singleRowWidth(q, pw, sp) == (q * pw) + ((q - 1) * sp)

\* a photo size scaled by the double n / d; fe says, for width and height,
\* on which side of a half-way value the double product fell
ScaleBy(pw, ph, n, d, fe) ==
  [photoWidthPx |-> RoundScaled(pw, n, d, fe.w),
   photoHeightPx |-> RoundScaled(ph, n, d, fe.h)]

Unscaled(pw, ph) == [photoWidthPx |-> pw, photoHeightPx |-> ph]

\* mutant: the fit test is dropped and the row is always scaled
SmallQuantityBranch_AlwaysScale(q, pw, ph, sp, aw, fe) ==
  LET size == ScaleBy(pw, ph, aw, singleRowWidth(q, pw, sp), fe)
  IN  [photoWidthPx |-> size.photoWidthPx, photoHeightPx |-> size.photoHeightPx,
       photosPerRow |-> q, totalRows |-> 1]

\* 1-3 photos: a single row, scaled down only when it does not fit
SmallQuantityBranch(q, pw, ph, sp, aw, fe) ==
  LET size == IF singleRowWidth(q, pw, sp) <= aw
              THEN Unscaled(pw, ph)
              ELSE ScaleBy(pw, ph, aw, singleRowWidth(q, pw, sp), fe)
  IN  [photoWidthPx |-> size.photoWidthPx, photoHeightPx |-> size.photoHeightPx,
       photosPerRow |-> q, totalRows |-> 1]

\* mutant: the row is scaled only when it does not fit, as for 1-3 photos
RowBranch_OnlyIfNeeded(q, pw, ph, sp, aw, fe) == SmallQuantityBranch(q, pw, ph, sp, aw, fe)

\* 4-8 photos: a single row, always scaled to the available width
RowBranch(q, pw, ph, sp, aw, fe) ==
  LET size == ScaleBy(pw, ph, aw, singleRowWidth(q, pw, sp), fe)
  IN  [photoWidthPx |-> size.photoWidthPx, photoHeightPx |-> size.photoHeightPx,
       photosPerRow |-> q, totalRows |-> 1]

\* more than 8 photos: as many per row as fit at full size
MultiRowPhotosPerRow(q, pw, sp, aw) == Min(maxPhotosPerRowAtFullSize(aw, sp, pw), q)
\* mutant: the rows are rounded down
MultiRowTotalRows_Floor(q, ppr) == MathFloor(q, ppr)
\* mutant: the index of the last row is taken for the number of rows
MultiRowTotalRows_LastRowIndex(q, ppr) == MathFloor(q - 1, ppr)
MultiRowTotalRows(q, ppr) == MathCeil(q, ppr)
MultiRowBranch(q, pw, ph, sp, aw) ==
  LET ppr == MultiRowPhotosPerRow(q, pw, sp, aw)
  IN  [photoWidthPx |-> pw, photoHeightPx |-> ph,
       photosPerRow |-> ppr, totalRows |-> MultiRowTotalRows(q, ppr)]

\* mutant: the single-row range ends one photo early
ChooseLayout_RowBelow8(q, pw, ph, sp, aw, fe) ==
  IF q <= SMALL_QUANTITY THEN SmallQuantityBranch(q, pw, ph, sp, aw, fe)
  ELSE IF q < ROW_QUANTITY THEN RowBranch(q, pw, ph, sp, aw, fe)
  ELSE MultiRowBranch(q, pw, ph, sp, aw)

ChooseLayout(q, pw, ph, sp, aw, fe) ==
  IF q <= SMALL_QUANTITY THEN SmallQuantityBranch(q, pw, ph, sp, aw, fe)
  ELSE IF q <= ROW_QUANTITY THEN RowBranch(q, pw, ph, sp, aw, fe)
  ELSE MultiRowBranch(q, pw, ph, sp, aw)

totalRequiredWidth(l, sp) == (l.photosPerRow * l.photoWidthPx) + ((l.photosPerRow - 1) * sp)
totalRequiredHeight(l, sp) == (l.totalRows * l.photoHeightPx) + ((l.totalRows - 1) * sp)

\* scale down a multi-row layout that does not fit, by
\* Math.min(widthScale, heightScale) * 0.98
NeedsSafetyScaling(l, sp, aw, ah) ==
  l.totalRows > 1 /\ (totalRequiredWidth(l, sp) > aw \/ totalRequiredHeight(l, sp) > ah)
SafetyScaling(l, sp, aw, ah, fe) ==
  IF NeedsSafetyScaling(l, sp, aw, ah)
  THEN LET tw == totalRequiredWidth(l, sp)
           th == totalRequiredHeight(l, sp)
           \* widthScale <= heightScale  iff  aw / tw <= ah / th
           size == IF aw * th <= ah * tw
                   THEN ScaleBy(l.photoWidthPx, l.photoHeightPx, aw * SAFETY_NUM, tw * SAFETY_DEN, fe)
                   ELSE ScaleBy(l.photoWidthPx, l.photoHeightPx, ah * SAFETY_NUM, th * SAFETY_DEN, fe)
       IN  [l EXCEPT !.photoWidthPx = size.photoWidthPx, !.photoHeightPx = size.photoHeightPx]
  ELSE l

\* pageUtilization as the fraction num / den
pageUtilization(q, pw, ph, aw, ah) == [num |-> q * pw * ph, den |-> aw * ah]

\* the values the handler holds once pageUtilization is computed
LayoutCalculation(s, fe) ==
  LET pw0 == MmToPx(s.width, DPI)
      ph0 == MmToPx(s.height, DPI)
      aw == availableWidth
      ah == availableHeight(s)
      sp == spacingPx(s)
      q == s.quantity
      chosen == ChooseLayout(q, pw0, ph0, sp, aw, fe)
      final == SafetyScaling(chosen, sp, aw, ah, fe)
  IN  [requestedWidthPx |-> pw0, requestedHeightPx |-> ph0,
       availableWidth |-> aw, availableHeight |-> ah, spacingPx |-> sp,
       chosenWidthPx |-> chosen.photoWidthPx, chosenHeightPx |-> chosen.photoHeightPx,
       photoWidthPx |-> final.photoWidthPx, photoHeightPx |-> final.photoHeightPx,
       photosPerRow |-> final.photosPerRow, totalRows |-> final.totalRows,
       pageUtilization |-> pageUtilization(q, final.photoWidthPx, final.photoHeightPx, aw, ah)]

----------------------------------------------------------------------------
(* The gap between photos in the renderers *)

\* GET /api/generate-preview/:imageId, at 150 DPI
PreviewSpacingPx(s) == MmToPx(OrDefault(s.spacing, DEFAULT_SPACING_MM), PREVIEW_DPI)
\* POST /api/generate-image, at 300 DPI
ImageSpacingPx(s) == MmToPx(OrDefault(s.spacing, DEFAULT_SPACING_MM), DPI)
\* POST /api/generate-pdf, in millimetres
PdfSpacingMm(s) == OrDefault(s.spacing, DEFAULT_SPACING_MM)

----------------------------------------------------------------------------
(* State machine: a request arrives with its settings, the handler plans *)
(* the layout and saves the result                                        *)

NoPlan == [photosPerRow |-> 0]
NoPage == [renderer |-> "none"]
NoEmail == <<"", 0>>
NoReply == [email |-> NoEmail, code |-> "", success |-> FALSE, message |-> ""]

\* a file name is the sequence of its parts; null is the empty one
NoFilename == << >>
\* the name multer gave the uploaded file
UploadFilename == <<"photo">>
\* the image's record as the upload saved it
UploadedImage == [exists |-> TRUE, filename |-> UploadFilename,
                  backgroundRemovedFilename |-> NoFilename]
NoResponse == [status |-> 0]

\* no remove-background request has been made, and no key is configured
BackgroundIdle ==
  /\ env = {}
  /\ apiKeys = << >>
  /\ image = UploadedImage
  /\ rbpc = "idle"
  /\ keyIndex = 0
  /\ calls = << >>
  /\ response = NoResponse

NoPresetReply == [op |-> "none"]

\* no preset request has been made
PresetsIdle ==
  /\ presets = {}
  /\ presetReply = NoPresetReply

\* cropSettings: null
NoCrop == "none"
NoLayoutId == 0
NoRender == [by |-> "none", status |-> 0, layoutId |-> NoLayoutId,
             source |-> NoFilename, cropSettings |-> NoCrop]

\* no layout result is saved, no file is processed
SourceIdle ==
  /\ layoutResults = << >>
  /\ processed = << >>
  /\ rendered = NoRender

\* MemStorage holds no image
MemIdle ==
  /\ images = {}
  /\ uploads = 0
  /\ inflight = {}

\* the client has an image uploaded and has sent no request
ClientIdle ==
  /\ effectTimer = FALSE
  /\ cropTimers = 0
  /\ issued = 0
  /\ outstanding = {}
  /\ failed = {}
  /\ layoutResult = 0

RestIdle == PresetsIdle /\ SourceIdle /\ verifications = {} /\ MemIdle /\ ClientIdle

\* no account request has been made
AuthIdle ==
  /\ backend = "db"
  /\ users = << >>
  /\ usersByEmail = << >>
  /\ pending = {}
  /\ now = 0
  /\ mails = {}
  /\ reply = NoReply

FloatErrors == [w : BOOLEAN, h : BOOLEAN]

\* the fields of the layout result that the renderers read
LayoutResult(s, p) ==
  [settings |-> s, photosPerRow |-> p.photosPerRow, totalRows |-> p.totalRows,
   pageUtilization |-> p.pageUtilization]

\* storage.saveLayoutResult
saveLayoutResult(store, result) == Append(store, result)

Init ==
  /\ settings \in ValidSettings
  /\ plan = NoPlan
  /\ pc = "received"
  /\ layouts = << >>
  /\ page = NoPage
  /\ AuthIdle
  /\ BackgroundIdle
  /\ RestIdle

\* the handler runs the layout calculation on the validated settings and
\* saves the layout result
GenerateLayout ==
  /\ pc = "received"
  /\ Len(layouts) < MaxLayouts
  /\ \E fe \in FloatErrors :
       /\ plan' = LayoutCalculation(settings, fe)
       /\ layouts' = saveLayoutResult(layouts, LayoutResult(settings, plan'))
  /\ pc' = "planned"
  /\ UNCHANGED <<settings, page>>
  /\ UNCHANGED authVars
  /\ UNCHANGED bgVars /\ UNCHANGED restVars

Next == GenerateLayout

Spec == Init /\ [][Next]_vars

----------------------------------------------------------------------------
(* The renderers: GET /api/generate-preview/:imageId, POST                 *)
(* /api/generate-image and POST /api/generate-pdf.  The preview and the    *)
(* image work in pixels (150 and 300 DPI), the PDF in millimetres.  An     *)
(* origin may fall on half a unit, so origins and positions are kept       *)
(* doubled (startX2 = 2 * startX).                                         *)

\* String.includes
Includes(s, sub) ==
  \E i \in 1..(Len(s) - Len(sub) + 1) : SubSeq(s, i, i + Len(sub) - 1) = sub

\* mutant: 'middle' is tested first, so 'middle-left' is centred
StartX2_MiddleFirst(layout, pageWidth, margin, gridWidth) ==
  IF layout = Word_auto THEN pageWidth - gridWidth
  ELSE IF Includes(layout, Word_middle) THEN pageWidth - gridWidth
  ELSE IF Includes(layout, Word_left) THEN 2 * margin
  ELSE 2 * (pageWidth - margin - gridWidth)

\* twice startX
StartX2(layout, pageWidth, margin, gridWidth) ==
  IF layout = Word_auto THEN pageWidth - gridWidth
  ELSE IF Includes(layout, Word_left) THEN 2 * margin
  ELSE IF Includes(layout, Word_right) THEN 2 * (pageWidth - margin - gridWidth)
  ELSE pageWidth - gridWidth

\* twice startY
StartY2(layout, pageHeight, top, bottom, availHeight, gridHeight) ==
  IF layout = Word_auto THEN (2 * top) + (availHeight - gridHeight)
  ELSE IF Includes(layout, Word_top) THEN 2 * top
  ELSE IF Includes(layout, Word_down) THEN 2 * (pageHeight - bottom - gridHeight)
  ELSE (2 * top) + (availHeight - gridHeight)

\* sizes, grid and origin from the page and photo measures
Geometry(l, pageWidth, pageHeight, side, top, bottom, photoWidth, photoHeight, spacing) ==
  LET availWidth == pageWidth - (2 * side)
      availHeight == pageHeight - top - bottom
      gridWidth == (l.photosPerRow * photoWidth) + ((l.photosPerRow - 1) * spacing)
      gridHeight == (l.totalRows * photoHeight) + ((l.totalRows - 1) * spacing)
  IN  [pageWidth |-> pageWidth, pageHeight |-> pageHeight,
       sideMargin |-> side, topMargin |-> top, bottomMargin |-> bottom,
       availableWidth |-> availWidth, availableHeight |-> availHeight,
       photoWidth |-> photoWidth, photoHeight |-> photoHeight, spacing |-> spacing,
       totalGridWidth |-> gridWidth, totalGridHeight |-> gridHeight,
       startX2 |-> StartX2(l.settings.layout, pageWidth, side, gridWidth),
       startY2 |-> StartY2(l.settings.layout, pageHeight, top, bottom, availHeight, gridHeight)]

\* the preview and the image: everything in pixels at the given DPI, the
\* photo at the requested size
PixelGeometry(l, dpi, spacing) ==
  Geometry(l, MmToPx(A4_WIDTH_MM, dpi), MmToPx(A4_HEIGHT_MM, dpi),
           MmToPx(SIDE_MARGIN_MM, dpi),
           MmToPx(OrDefault(l.settings.topMargin, DEFAULT_TOP_MARGIN_MM), dpi),
           MmToPx(BOTTOM_MARGIN_MM, dpi),
           MmToPx(l.settings.width, dpi), MmToPx(l.settings.height, dpi), spacing)

\* the PDF: everything in millimetres
PdfGeometry(l) ==
  Geometry(l, A4_WIDTH_MM, A4_HEIGHT_MM, SIDE_MARGIN_MM,
           OrDefault(l.settings.topMargin, DEFAULT_TOP_MARGIN_MM), BOTTOM_MARGIN_MM,
           l.settings.width, l.settings.height, PdfSpacingMm(l.settings))

\* twice the position of the photo at (row, col); the pixel renderers round
\* the position with Math.round, the PDF does not
PhotoAt(g, row, col, rounded) ==
  LET x2 == g.startX2 + (2 * col * (g.photoWidth + g.spacing))
      y2 == g.startY2 + (2 * row * (g.photoHeight + g.spacing))
  IN  [row |-> row, col |-> col,
       x2 |-> IF rounded THEN 2 * MathRound(x2, 2) ELSE x2,
       y2 |-> IF rounded THEN 2 * MathRound(y2, 2) ELSE y2]

\* the inner loop: for (col = 0; col < photosPerRow && photoCount < quantity; col++)
RECURSIVE PlaceRow(_, _, _, _, _, _)
PlaceRow(l, g, rounded, row, col, placed) ==
  IF col < l.photosPerRow /\ Len(placed) < l.settings.quantity
  THEN PlaceRow(l, g, rounded, row, col + 1, Append(placed, PhotoAt(g, row, col, rounded)))
  ELSE placed

\* mutant: the outer loop does not test photoCount
RECURSIVE PlaceRows_NoCount(_, _, _, _, _)
PlaceRows_NoCount(l, g, rounded, row, placed) ==
  IF row < l.totalRows
  THEN PlaceRows_NoCount(l, g, rounded, row + 1,
         placed \o [c \in 1..l.photosPerRow |-> PhotoAt(g, row, c - 1, rounded)])
  ELSE placed

\* the outer loop: for (row = 0; row < totalRows && photoCount < quantity; row++)
RECURSIVE PlaceRows(_, _, _, _, _)
PlaceRows(l, g, rounded, row, placed) ==
  IF row < l.totalRows /\ Len(placed) < l.settings.quantity
  THEN PlaceRows(l, g, rounded, row + 1, PlaceRow(l, g, rounded, row, 0, placed))
  ELSE placed

\* the page a renderer produces for the layout result l
Render(renderer, l, g, rounded) ==
  [renderer |-> renderer, layout |-> l, geometry |-> g,
   photos |-> PlaceRows(l, g, rounded, 0, << >>)]

\* the layout the request names with layoutId, or else the one
\* getLayoutResult finds for the image: one of the saved layouts
GeneratePreview ==
  /\ \E i \in 1..Len(layouts) :
       page' = Render("preview", layouts[i],
                      PixelGeometry(layouts[i], PREVIEW_DPI, PreviewSpacingPx(layouts[i].settings)), TRUE)
  /\ UNCHANGED <<settings, plan, pc, layouts>>
  /\ UNCHANGED authVars
  /\ UNCHANGED bgVars /\ UNCHANGED restVars

GenerateImage ==
  /\ \E i \in 1..Len(layouts) :
       page' = Render("image", layouts[i],
                      PixelGeometry(layouts[i], DPI, ImageSpacingPx(layouts[i].settings)), TRUE)
  /\ UNCHANGED <<settings, plan, pc, layouts>>
  /\ UNCHANGED authVars
  /\ UNCHANGED bgVars /\ UNCHANGED restVars

GeneratePdf ==
  /\ \E i \in 1..Len(layouts) :
       page' = Render("pdf", layouts[i], PdfGeometry(layouts[i]), FALSE)
  /\ UNCHANGED <<settings, plan, pc, layouts>>
  /\ UNCHANGED authVars
  /\ UNCHANGED bgVars /\ UNCHANGED restVars

InitRender ==
  /\ settings \in RenderSettings
  /\ plan = NoPlan
  /\ pc = "received"
  /\ layouts = << >>
  /\ page = NoPage
  /\ AuthIdle
  /\ BackgroundIdle
  /\ RestIdle

NextRender == GenerateLayout \/ GeneratePreview \/ GenerateImage \/ GeneratePdf

SpecRender == InitRender /\ [][NextRender]_vars

----------------------------------------------------------------------------
(* Accounts: EmailAuthService (registerUser, verifyEmail,                  *)
(* resendVerificationCode), the Google strategy's verify callback and      *)
(* POST /api/login/guest, over the exported storage.  An e-mail address is *)
(* a pair: <<"addr", n>> is an address somebody types or Google reports,   *)
(* <<"guest", id>> is `${guestId}@guest.local` and <<"deleted", id>> is    *)
(* `deleted_${id}@temp.com`.  A user's id is its index in users.           *)

Emails == { <<"addr", 1>> }
GuestEmail(id) == <<"guest", id>>
DeletedEmail(id) == <<"deleted", id>>
\* what a signup form may carry: any address, a guest's address included
SignupEmails == Emails \cup { GuestEmail(1) }
Codes == { "123456", "654321" }
Passwords == { "secret" }
\* the passwords a login is tried with
LoginPasswords == Passwords \cup { "wrong" }

\* bcrypt: the hash is not the password, and compare accepts only the
\* password the hash was made from
NoHash == << >>
hashPassword(password) == <<"bcrypt", password>>
verifyPassword(password, hashedPassword) == hashedPassword = hashPassword(password)

\* the clock of the model counts quarters of an hour
CLOCK_STEP_MS == EXPIRY_MS
Expiry == EXPIRY_MS \div CLOCK_STEP_MS

MsgAlreadyExists == "An account with this email already exists"
MsgCheckEmail == "Please check your email for the verification code to complete registration."
MsgInvalidCode == "Invalid or expired verification code"
MsgVerified == "Email verified successfully! Welcome to Passport Photo Maker."
MsgVerificationFailed == "Verification failed. Please try again."
MsgAlreadyVerified == "This email is already verified"
MsgNoRegistration == "No registration found for this email. Please sign up first."
MsgNewCode == "New verification code sent! Please check your email."
MsgNoAccount == "No account found with this email. Please sign up first."
MsgDifferentMethod == "This email is registered with a different sign-in method."
MsgVerifyFirst == "Please verify your email before logging in. Check your inbox for the verification code."
MsgInvalidLogin == "Invalid email or password"
MsgLoginOk == "Login successful!"

\* what a call for an address answers, success and message, with the code
\* it was given (verifyEmail) or mailed (registerUser, resend)
Reply(email, code, success, message) ==
  [email |-> email, code |-> code, success |-> success, message |-> message]

\* EmailService.sendVerificationEmail: the code goes to the address (or to
\* the console) and the answer is true
sendVerificationEmail(email, verificationCode) ==
  mails' = mails \cup { <<email, verificationCode>> }

\* storage.getUserByEmail: the row with that e-mail (DatabaseStorage), the
\* entry of the usersByEmail map (MemStorage); the empty set is undefined
getUserByEmail(email) ==
  IF backend = "db"
  THEN { users[i] : i \in { j \in DOMAIN users : users[j].email = email } }
  ELSE IF email \in DOMAIN usersByEmail THEN { usersByEmail[email] } ELSE {}

\* users.email is unique in the database: the insert throws on a duplicate
InsertThrows(email) ==
  backend = "db" /\ \E i \in DOMAIN users : users[i].email = email

\* MemStorage sets usersByEmail for the record's e-mail and never removes
\* an entry
IndexUser(user) ==
  IF backend = "mem" THEN (user.email :> user) @@ usersByEmail ELSE usersByEmail

\* storage.createUser
createUser(email, authProvider, isEmailVerified, passwordHash) ==
  LET user == [id |-> Len(users) + 1, email |-> email,
               authProvider |-> authProvider,
               isEmailVerified |-> isEmailVerified,
               passwordHash |-> passwordHash]
  IN /\ users' = Append(users, user)
     /\ usersByEmail' = IndexUser(user)

\* storage.updateUser, given the merged record
updateUser(user) ==
  /\ users' = [users EXCEPT ![user.id] = user]
  /\ usersByEmail' = IndexUser(user)

deletePendingRegistration_Expired(store, email) ==
  { p \in store : p.email # email \/ p.expiresAt > now }

\* storage.deletePendingRegistration: every registration of the e-mail goes
deletePendingRegistration(store, email) ==
  { p \in store : p.email # email }

savePendingRegistration_Keep(store, registration) ==
  store \cup { registration }

\* storage.savePendingRegistration: the e-mail's earlier registrations are
\* deleted first
savePendingRegistration(store, registration) ==
  deletePendingRegistration(store, registration.email) \cup { registration }

getPendingRegistration_AnyAge(store, email, code, at) ==
  { p \in store : /\ p.email = email
                  /\ p.verificationCode = code }

\* storage.getPendingRegistration: e-mail and code match and the
\* registration expires later than the time of the call
getPendingRegistration(store, email, code, at) ==
  { p \in store : /\ p.email = email
                  /\ p.verificationCode = code
                  /\ p.expiresAt > at }

PendingRegistration(email, passwordHash, code, expiresAt) ==
  [email |-> email, passwordHash |-> passwordHash,
   verificationCode |-> code, expiresAt |-> expiresAt]

existingVerified_AnyRecord(existingUser) ==
  existingUser # {}

\* registerUser's first test: existingUser && existingUser.isEmailVerified
existingVerified(existingUser) ==
  \E u \in existingUser : u.isEmailVerified

\* EmailAuthService.registerUser.  sendVerificationEmail always answers
\* true, so the mail with the code is sent and the call succeeds.
RegisterUser(email, password) ==
  LET existingUser == getUserByEmail(email)
  IN IF existingVerified(existingUser)
     THEN /\ reply' = Reply(email, "", FALSE, MsgAlreadyExists)
          /\ UNCHANGED <<users, usersByEmail, pending, mails>>
     ELSE \E code \in Codes :
            /\ IF existingUser # {}
               THEN \E u \in existingUser :
                      updateUser([users[u.id] EXCEPT !.email = DeletedEmail(u.id)])
               ELSE UNCHANGED <<users, usersByEmail>>
            /\ pending' = savePendingRegistration(pending,
                             PendingRegistration(email, hashPassword(password),
                                                 code, now + Expiry))
            /\ sendVerificationEmail(email, code)
            /\ reply' = Reply(email, code, TRUE, MsgCheckEmail)

\* EmailAuthService.verifyEmail
VerifyEmail(email, code) ==
  LET pendingRegistration == getPendingRegistration(pending, email, code, now)
  IN IF pendingRegistration = {}
     THEN /\ reply' = Reply(email, code, FALSE, MsgInvalidCode)
          /\ UNCHANGED <<users, usersByEmail, pending, mails>>
     ELSE IF InsertThrows(email)
     THEN /\ reply' = Reply(email, code, FALSE, MsgVerificationFailed)
          /\ UNCHANGED <<users, usersByEmail, pending, mails>>
     ELSE /\ Len(users) < MaxUsers
          /\ \E p \in pendingRegistration :
               createUser(p.email, "email", TRUE, p.passwordHash)
          /\ pending' = deletePendingRegistration(pending, email)
          /\ reply' = Reply(email, code, TRUE, MsgVerified)
          /\ UNCHANGED mails

\* EmailAuthService.resendVerificationCode.  It reads the registration
\* through db, the database's table, which MemStorage never writes.
ResendVerificationCode(email) ==
  LET user == getUserByEmail(email)
      existingPending == getPendingRegistration(pending, email, "", now)
      existingReg == IF backend = "db"
                     THEN { p \in pending : p.email = email }
                     ELSE {}
  IN IF existingVerified(user)
     THEN /\ reply' = Reply(email, "", FALSE, MsgAlreadyVerified)
          /\ UNCHANGED <<users, usersByEmail, pending, mails>>
     ELSE IF existingPending = {} /\ existingReg = {}
     THEN /\ reply' = Reply(email, "", FALSE, MsgNoRegistration)
          /\ UNCHANGED <<users, usersByEmail, pending, mails>>
     ELSE \E code \in Codes :
            /\ IF existingReg # {}
               THEN \E p \in existingReg :
                      pending' = savePendingRegistration(pending,
                                   PendingRegistration(p.email, p.passwordHash,
                                                       code, now + Expiry))
               ELSE UNCHANGED pending
            /\ sendVerificationEmail(email, code)
            /\ reply' = Reply(email, code, TRUE, MsgNewCode)
            /\ UNCHANGED <<users, usersByEmail>>

\* the Google strategy's verify callback
GoogleSignIn(email) ==
  LET user == getUserByEmail(email)
  IN /\ IF user # {}
        THEN \E u \in user :
               updateUser([users[u.id] EXCEPT !.authProvider = "google"])
        ELSE /\ Len(users) < MaxUsers
             /\ createUser(email, "google", TRUE, NoHash)
     /\ reply' = Reply(email, "", TRUE, "")
     /\ UNCHANGED <<pending, mails>>

emailProvider_Any(user) ==
  TRUE

\* loginUser's second test passes: user.authProvider === 'email'
emailProvider(user) ==
  user.authProvider = "email"

\* EmailAuthService.loginUser
LoginUser(email, password) ==
  LET user == getUserByEmail(email)
  IN /\ reply' =
          IF user = {}
          THEN Reply(email, "", FALSE, MsgNoAccount)
          ELSE LET u == CHOOSE x \in user : TRUE
               IN IF ~ emailProvider(u)
                  THEN Reply(email, "", FALSE, MsgDifferentMethod)
                  ELSE IF ~ u.isEmailVerified
                  THEN Reply(email, "", FALSE, MsgVerifyFirst)
                  ELSE IF u.passwordHash = NoHash
                  THEN Reply(email, "", FALSE, MsgInvalidLogin)
                  ELSE IF ~ verifyPassword(password, u.passwordHash)
                  THEN Reply(email, "", FALSE, MsgInvalidLogin)
                  ELSE Reply(email, "", TRUE, MsgLoginOk)
     /\ UNCHANGED <<users, usersByEmail, pending, mails>>

\* POST /api/login/guest
GuestLogin ==
  /\ Len(users) < MaxUsers
  /\ createUser(GuestEmail(Len(users) + 1), "guest", FALSE, NoHash)
  /\ reply' = Reply(GuestEmail(Len(users) + 1), "", TRUE, "")
  /\ UNCHANGED <<pending, mails>>

\* time passes
Tick ==
  /\ now < MaxTime
  /\ now' = now + 1
  /\ UNCHANGED <<users, usersByEmail, pending, mails, reply>>

Register ==
  /\ \E email \in SignupEmails, password \in Passwords : RegisterUser(email, password)
  /\ UNCHANGED <<backend, now>> /\ UNCHANGED layoutVars /\ UNCHANGED bgVars /\ UNCHANGED restVars

Verify ==
  /\ \E email \in SignupEmails, code \in Codes : VerifyEmail(email, code)
  /\ UNCHANGED <<backend, now>> /\ UNCHANGED layoutVars /\ UNCHANGED bgVars /\ UNCHANGED restVars

Resend ==
  /\ \E email \in SignupEmails : ResendVerificationCode(email)
  /\ UNCHANGED <<backend, now>> /\ UNCHANGED layoutVars /\ UNCHANGED bgVars /\ UNCHANGED restVars

Google ==
  /\ \E email \in Emails : GoogleSignIn(email)
  /\ UNCHANGED <<backend, now>> /\ UNCHANGED layoutVars /\ UNCHANGED bgVars /\ UNCHANGED restVars

Login ==
  /\ \E email \in SignupEmails, password \in LoginPasswords : LoginUser(email, password)
  /\ UNCHANGED <<backend, now>> /\ UNCHANGED layoutVars /\ UNCHANGED bgVars /\ UNCHANGED restVars

Guest ==
  /\ GuestLogin
  /\ UNCHANGED <<backend, now>> /\ UNCHANGED layoutVars /\ UNCHANGED bgVars /\ UNCHANGED restVars

Clock ==
  /\ Tick
  /\ UNCHANGED backend /\ UNCHANGED layoutVars /\ UNCHANGED bgVars /\ UNCHANGED restVars

\* the client's settings before the user changes any, and no layout request
DefaultSettings ==
  [width |-> 35, height |-> 45, quantity |-> 8, layout |-> Word_auto,
   spacing |-> 5, topMargin |-> 10]

LayoutIdle ==
  /\ settings = DefaultSettings
  /\ plan = NoPlan
  /\ pc = "received"
  /\ layouts = << >>
  /\ page = NoPage

InitAuth ==
  /\ LayoutIdle
  /\ BackgroundIdle
  /\ RestIdle
  /\ backend \in {"db", "mem"}
  /\ users = << >>
  /\ usersByEmail = << >>
  /\ pending = {}
  /\ now = 0
  /\ mails = {}
  /\ reply = NoReply

NextAuth == Register \/ Verify \/ Resend \/ Google \/ Login \/ Guest \/ Clock

SpecAuth == InitAuth /\ [][NextAuth]_vars

----------------------------------------------------------------------------
(* POST /api/remove-background: the keys REMOVEBG_API_KEY,                  *)
(* REMOVEBG_API_KEY_2, ... that are set are tried in turn.  A key is named  *)
(* by its place among the environment's variables.  One image is followed;  *)
(* DELETE /api/images/:id may delete it while a call to Remove.bg is in     *)
(* flight.                                                                  *)

\* the route reads ten variables, and the secrets setup stores ten keys
KEY_COUNT == 10

\* a variable's name: its stem and its number, 0 for no number.  The route
\* reads REMOVEBG_API_KEY, REMOVEBG_API_KEY_2, ..., REMOVEBG_API_KEY_10
RouteKeyName(n) ==
  IF n = 1 THEN <<"REMOVEBG_API_KEY", 0>> ELSE <<"REMOVEBG_API_KEY_", n>>

\* autoSetupSecrets stores REMOVE_BG_API_KEY_${index + 1}
SetupKeyName(index) ==
  <<"REMOVE_BG_API_KEY_", index + 1>>

\* the list of the environment's key variables, filtered to those set
RECURSIVE KeysFrom(_, _)
KeysFrom(n, configured) ==
  IF n > KEY_COUNT
  THEN << >>
  ELSE (IF RouteKeyName(n) \in configured THEN <<n>> ELSE << >>)
         \o KeysFrom(n + 1, configured)

\* autoSetupSecrets: setSecret puts each secret into process.env as well;
\* REPLIT_APP_URL and SESSION_SECRET are set if they are not yet, the ten
\* Remove.bg keys always
AutoSetupSecrets ==
  /\ rbpc = "idle"
  /\ env' = env \cup { <<"REPLIT_APP_URL", 0>>, <<"SESSION_SECRET", 0>> }
                 \cup { SetupKeyName(index) : index \in 0..(KEY_COUNT - 1) }
  /\ env' # env
  /\ UNCHANGED <<apiKeys, image, rbpc, keyIndex, calls, response>>
  /\ UNCHANGED layoutVars /\ UNCHANGED authVars /\ UNCHANGED restVars

\* `bg_removed_${image.filename}.png`
BgRemovedFilename(filename) == <<"bg_removed_">> \o filename

MsgImageNotFound == "Image not found"
MsgNoKeys == "No Remove.bg API keys configured"
MsgExhausted == "Background removal failed - all API keys exhausted"

\* res.status(...).json({ message })
Failure(status, message) ==
  [status |-> status, message |-> message]

\* res.json({ success: true, ..., apiKeyUsed })
Success(apiKeyUsed) ==
  [status |-> 200, message |-> "", apiKeyUsed |-> apiKeyUsed]

\* storage.updateUploadedImage throws: MemStorage does when the image is
\* not in its map, the database's update of no row does not
UpdateThrows ==
  backend = "mem" /\ ~ image.exists

\* storage.updateUploadedImage(imageId, updates)
updateUploadedImage(img, updates) ==
  IF img.exists
  THEN [f \in DOMAIN img |-> IF f \in DOMAIN updates THEN updates[f] ELSE img[f]]
  ELSE img

\* the request arrives: the image is looked up and the keys are listed
RemoveBackground ==
  /\ rbpc = "idle"
  /\ IF ~ image.exists
     THEN /\ response' = Failure(404, MsgImageNotFound)
          /\ rbpc' = "done"
          /\ UNCHANGED <<apiKeys, keyIndex>>
     ELSE /\ apiKeys' = KeysFrom(1, env)
          /\ IF Len(apiKeys') = 0
             THEN /\ response' = Failure(500, MsgNoKeys)
                  /\ rbpc' = "done"
                  /\ UNCHANGED keyIndex
             ELSE /\ keyIndex' = 1
                  /\ rbpc' = "fetching"
                  /\ UNCHANGED response
  /\ UNCHANGED <<env, image, calls>>
  /\ UNCHANGED layoutVars /\ UNCHANGED authVars /\ UNCHANGED restVars

\* the loop goes on to the next key, or ends with every key used up
Continue ==
  IF keyIndex < Len(apiKeys)
  THEN /\ keyIndex' = keyIndex + 1
       /\ UNCHANGED <<rbpc, response>>
  ELSE /\ response' = Failure(500, MsgExhausted)
       /\ rbpc' = "done"
       /\ UNCHANGED keyIndex

\* one turn of the loop: the call with key apiKeys[keyIndex] is answered.
\* ok is response.ok; a fetch that throws counts as not ok.  The
\* saving of the result is inside the same try block as the call.
TryKey(ok) ==
  /\ rbpc = "fetching"
  /\ calls' = Append(calls, [key |-> apiKeys[keyIndex], ok |-> ok])
  /\ IF ok /\ ~ UpdateThrows
     THEN /\ image' = updateUploadedImage(image,
                       [backgroundRemovedFilename |-> BgRemovedFilename(image.filename)])
          /\ response' = Success(keyIndex)
          /\ rbpc' = "done"
          /\ UNCHANGED keyIndex
     ELSE /\ Continue
          /\ UNCHANGED image
  /\ UNCHANGED <<env, apiKeys>>

KeyAnswers ==
  /\ \E ok \in BOOLEAN : TryKey(ok)
  /\ UNCHANGED layoutVars /\ UNCHANGED authVars /\ UNCHANGED restVars

\* DELETE /api/images/:id: the image's layout results and the image go
DeleteImage ==
  /\ image.exists
  /\ image' = [image EXCEPT !.exists = FALSE]
  /\ layouts' = << >>
  /\ UNCHANGED <<settings, plan, pc, page>>
  /\ UNCHANGED <<env, apiKeys, rbpc, keyIndex, calls, response>>
  /\ UNCHANGED authVars /\ UNCHANGED restVars

InitBackground ==
  /\ LayoutIdle
  /\ backend \in {"db", "mem"}
  /\ users = << >>
  /\ usersByEmail = << >>
  /\ pending = {}
  /\ now = 0
  /\ mails = {}
  /\ reply = NoReply
  /\ env \in SUBSET { RouteKeyName(n) : n \in 1..MaxKeys }
  /\ apiKeys = << >>
  /\ image = UploadedImage
  /\ rbpc = "idle"
  /\ keyIndex = 0
  /\ calls = << >>
  /\ response = NoResponse
  /\ RestIdle

NextBackground == AutoSetupSecrets \/ RemoveBackground \/ KeyAnswers \/ DeleteImage

SpecBackground == InitBackground /\ [][NextBackground]_vars

----------------------------------------------------------------------------
(* The preset endpoints GET, POST /api/presets and DELETE /api/presets/:id, *)
(* all behind isAuthenticated: req.user.id is the id of the user who is     *)
(* signed in.  A preset is [id, userId, name]; the order of a listing (by   *)
(* createdAt) is left out.                                                  *)

PresetUsers == { "A", "B" }
PresetNames == { "passport", "visa" }
\* the ids randomUUID may give
PresetIds == 1..MaxPresets

\* storage.getAllPresets(userId)
getAllPresets(store, userId) ==
  { p \in store : p.userId = userId }

\* storage.savePreset
savePreset(store, id, userId, name) ==
  store \cup { [id |-> id, userId |-> userId, name |-> name] }

\* storage.deletePreset(id)
deletePreset(store, id) ==
  { p \in store : p.id # id }

\* GET /api/presets by the user
GetPresets(userId) ==
  /\ presetReply' = [op |-> "get", userId |-> userId,
                     presets |-> getAllPresets(presets, userId)]
  /\ UNCHANGED presets

\* POST /api/presets by the user
SavePreset(userId, name) ==
  /\ Cardinality(presets) < MaxPresets
  /\ \E id \in PresetIds :
       /\ \A p \in presets : p.id # id
       /\ presets' = savePreset(presets, id, userId, name)
       /\ presetReply' = [op |-> "post", userId |-> userId, id |-> id]

\* DELETE /api/presets/:id by the user
DeletePreset(userId, id) ==
  /\ presets' = deletePreset(presets, id)
  /\ presetReply' = [op |-> "delete", userId |-> userId, id |-> id]

\* a preset request made by the user
PresetRequestBy(userId) ==
  \/ GetPresets(userId)
  \/ \E name \in PresetNames : SavePreset(userId, name)
  \/ \E id \in PresetIds : DeletePreset(userId, id)

PresetsGet ==
  /\ \E userId \in PresetUsers : GetPresets(userId)
  /\ UNCHANGED <<layoutVars, authVars, bgVars, sourceVars, cleanupVars, memVars, clientVars>>

PresetsPost ==
  /\ \E userId \in PresetUsers, name \in PresetNames : SavePreset(userId, name)
  /\ UNCHANGED <<layoutVars, authVars, bgVars, sourceVars, cleanupVars, memVars, clientVars>>

PresetsDelete ==
  /\ \E userId \in PresetUsers, id \in PresetIds : DeletePreset(userId, id)
  /\ UNCHANGED <<layoutVars, authVars, bgVars, sourceVars, cleanupVars, memVars, clientVars>>

InitPresets ==
  /\ LayoutIdle
  /\ AuthIdle
  /\ BackgroundIdle
  /\ RestIdle

NextPresets == PresetsGet \/ PresetsPost \/ PresetsDelete

SpecPresets == InitPresets /\ [][NextPresets]_vars

----------------------------------------------------------------------------
(* The storage's expiry of pending registrations and e-mail verifications,  *)
(* through the storage interface: rows are saved, verifications are marked  *)
(* used, the clock goes on, and the two deleteExpired methods run.          *)

VerificationIds == 1..MaxVerifications

\* storage.saveEmailVerification
saveEmailVerification(store, id, email, code, expiresAt) ==
  store \cup { [id |-> id, email |-> email, verificationCode |-> code,
                expiresAt |-> expiresAt, used |-> FALSE] }

\* storage.markEmailVerificationAsUsed
markEmailVerificationAsUsed(store, id) ==
  { [v EXCEPT !.used = (v.id = id) \/ v.used] : v \in store }

\* storage.deleteExpiredVerifications at the time given: DatabaseStorage
\* deletes where used = false and expiresAt = new Date(), MemStorage
\* where !used and expiresAt <= now
deleteExpiredVerifications(storage, store, at) ==
  IF storage = "db"
  THEN { v \in store : ~ (~ v.used /\ v.expiresAt = at) }
  ELSE { v \in store : ~ (~ v.used /\ v.expiresAt <= at) }

\* storage.deleteExpiredPendingRegistrations at the time given:
\* DatabaseStorage deletes where expiresAt = new Date(), MemStorage where
\* expiresAt <= now
deleteExpiredPendingRegistrations(storage, store, at) ==
  IF storage = "db"
  THEN { p \in store : ~ (p.expiresAt = at) }
  ELSE { p \in store : ~ (p.expiresAt <= at) }

otherThanCleanup ==
  <<layoutVars, backend, users, usersByEmail, mails, reply, bgVars, presetVars, sourceVars, memVars,
    clientVars>>

SaveEmailVerification ==
  /\ \E id \in VerificationIds, email \in Emails, code \in Codes :
       /\ \A v \in verifications : v.id # id
       /\ verifications' = saveEmailVerification(verifications, id, email, code, now + Expiry)
  /\ UNCHANGED <<pending, now>> /\ UNCHANGED otherThanCleanup

MarkEmailVerificationAsUsed ==
  /\ \E id \in VerificationIds :
       verifications' = markEmailVerificationAsUsed(verifications, id)
  /\ verifications' # verifications
  /\ UNCHANGED <<pending, now>> /\ UNCHANGED otherThanCleanup

SavePendingRegistration ==
  /\ \E email \in SignupEmails, password \in Passwords, code \in Codes :
       pending' = savePendingRegistration(pending,
                     PendingRegistration(email, hashPassword(password), code, now + Expiry))
  /\ UNCHANGED <<verifications, now>> /\ UNCHANGED otherThanCleanup

\* the periodic clean-up
DeleteExpired ==
  /\ verifications' = deleteExpiredVerifications(backend, verifications, now)
  /\ pending' = deleteExpiredPendingRegistrations(backend, pending, now)
  /\ UNCHANGED now /\ UNCHANGED otherThanCleanup

TimePasses ==
  /\ now < MaxTime
  /\ now' = now + 1
  /\ UNCHANGED <<pending, verifications>> /\ UNCHANGED otherThanCleanup

InitCleanup ==
  /\ LayoutIdle
  /\ BackgroundIdle
  /\ RestIdle
  /\ backend \in {"db", "mem"}
  /\ users = << >>
  /\ usersByEmail = << >>
  /\ pending = {}
  /\ now = 0
  /\ mails = {}
  /\ reply = NoReply

NextCleanup ==
  \/ SaveEmailVerification
  \/ MarkEmailVerificationAsUsed
  \/ SavePendingRegistration
  \/ DeleteExpired
  \/ TimePasses

SpecCleanup == InitCleanup /\ [][NextCleanup]_vars

----------------------------------------------------------------------------
(* Which file the photo requests read.  One uploaded image is followed.  A  *)
(* request shows a source file with crop settings applied to it; the        *)
(* arithmetic of the page is in GenerateLayout and the renderers above.     *)
(* The crop settings are kept as a name for their six numbers.              *)

ImageId == 1
CropSettingsSamples == { "tight" }
CropInputs == { NoCrop } \cup CropSettingsSamples
\* the ids randomUUID may give
LayoutIds == 1..MaxLayoutRows
NoLayout == [id |-> NoLayoutId, imageId |-> 0, cropSettings |-> NoCrop]

\* image.backgroundRemovedFilename || image.filename
sourceFilename(img) ==
  IF img.backgroundRemovedFilename # NoFilename
  THEN img.backgroundRemovedFilename
  ELSE img.filename

\* `processed_${image.filename}.jpg`
ProcessedFilename(filename) == <<"processed_">> \o filename

\* `cropped_${Date.now()}_${image.filename}`
CroppedFilename(filename) == <<"cropped_">> \o filename

\* the greatest of a set of ids
MaxId(ids) == CHOOSE m \in ids : \A n \in ids : n <= m

\* storage.getLayoutResultById
getLayoutResultById(store, id) ==
  IF \E i \in 1..Len(store) : store[i].id = id
  THEN store[CHOOSE i \in 1..Len(store) : store[i].id = id]
  ELSE NoLayout

\* storage.getLayoutResult: the image's rows by descending id, the first
getLayoutResult(store, imageId) ==
  LET ids == { store[i].id : i \in { n \in 1..Len(store) : store[n].imageId = imageId } }
  IN IF ids = {} THEN NoLayout ELSE getLayoutResultById(store, MaxId(ids))

\* the layout a renderer works with: the one asked for, else the latest
FindLayout(layoutId) ==
  LET byId == IF layoutId # NoLayoutId
              THEN getLayoutResultById(layoutResults, layoutId)
              ELSE NoLayout
  IN IF byId # NoLayout THEN byId ELSE getLayoutResult(layoutResults, ImageId)

\* res.status(404)
NotFound(by) ==
  [by |-> by, status |-> 404, layoutId |-> NoLayoutId,
   source |-> NoFilename, cropSettings |-> NoCrop]

Shown(by, layoutId, source, cropSettings) ==
  [by |-> by, status |-> 200, layoutId |-> layoutId,
   source |-> source, cropSettings |-> cropSettings]

\* fs.writeFileSync(processedPath, processedBuffer)
WriteProcessed(files, name, content) ==
  [n \in DOMAIN files \cup {name} |-> IF n = name THEN content ELSE files[n]]

\* POST /api/generate-layout: the source is cropped, saved as the processed
\* file, and the layout result is saved
ProcessPhoto(cropSettings) ==
  /\ Len(layoutResults) < MaxLayoutRows
  /\ IF ~ image.exists
     THEN /\ rendered' = NotFound("layout")
          /\ UNCHANGED <<layoutResults, processed>>
     ELSE \E id \in LayoutIds :
            /\ getLayoutResultById(layoutResults, id) = NoLayout
            /\ processed' = WriteProcessed(processed, ProcessedFilename(image.filename),
                                [source |-> sourceFilename(image), cropSettings |-> cropSettings])
            /\ layoutResults' = saveLayoutResult(layoutResults,
                                [id |-> id, imageId |-> ImageId, cropSettings |-> cropSettings])
            /\ rendered' = Shown("layout", id, sourceFilename(image), cropSettings)
  /\ UNCHANGED image

\* what the preview and the image download show of a layout: the source
\* file resized, the layout's crop settings are not read
SourceContent(layout) ==
  [source |-> sourceFilename(image), cropSettings |-> NoCrop]

\* what the PDF shows of a layout: the processed file of the image
ProcessedContent(layout) ==
  processed[ProcessedFilename(image.filename)]

\* GET /api/generate-preview/:imageId and POST /api/generate-image
RenderSource(by, layoutId) ==
  LET layout == FindLayout(layoutId)
  IN /\ rendered' = IF layout = NoLayout \/ ~ image.exists
                    THEN NotFound(by)
                    ELSE Shown(by, layout.id, SourceContent(layout).source,
                               SourceContent(layout).cropSettings)
     /\ UNCHANGED <<image, layoutResults, processed>>

\* POST /api/generate-pdf
RenderProcessed(layoutId) ==
  LET layout == FindLayout(layoutId)
  IN /\ rendered' = IF \/ layout = NoLayout
                       \/ ~ image.exists
                       \/ ProcessedFilename(image.filename) \notin DOMAIN processed
                    THEN NotFound("pdf")
                    ELSE Shown("pdf", layout.id, ProcessedContent(layout).source,
                               ProcessedContent(layout).cropSettings)
     /\ UNCHANGED <<image, layoutResults, processed>>

\* POST /api/save-cropped-photo
SaveCroppedPhoto(cropSettings, replaceOriginal) ==
  IF ~ image.exists
  THEN /\ rendered' = NotFound("crop")
       /\ UNCHANGED <<image, layoutResults, processed>>
  ELSE IF replaceOriginal
  THEN /\ Len(image.filename) <= MaxCrops
       /\ image' = updateUploadedImage(image, [filename |-> CroppedFilename(image.filename)])
       /\ rendered' = Shown("crop", NoLayoutId, sourceFilename(image), cropSettings)
       /\ UNCHANGED <<layoutResults, processed>>
  ELSE /\ rendered' = Shown("crop-download", NoLayoutId, sourceFilename(image), cropSettings)
       /\ UNCHANGED <<image, layoutResults, processed>>

otherThanSource ==
  <<layoutVars, authVars, env, apiKeys, rbpc, keyIndex, calls, response, presetVars, cleanupVars, memVars, clientVars>>

Process ==
  /\ \E cropSettings \in CropInputs : ProcessPhoto(cropSettings)
  /\ UNCHANGED otherThanSource

Preview ==
  /\ \E layoutId \in LayoutIds \cup {NoLayoutId} : RenderSource("preview", layoutId)
  /\ UNCHANGED otherThanSource

Download ==
  /\ \E layoutId \in LayoutIds \cup {NoLayoutId} : RenderSource("image", layoutId)
  /\ UNCHANGED otherThanSource

Pdf ==
  /\ \E layoutId \in LayoutIds \cup {NoLayoutId} : RenderProcessed(layoutId)
  /\ UNCHANGED otherThanSource

SaveCrop ==
  /\ \E cropSettings \in CropSettingsSamples, replaceOriginal \in BOOLEAN :
       SaveCroppedPhoto(cropSettings, replaceOriginal)
  /\ UNCHANGED otherThanSource

InitSource ==
  /\ LayoutIdle
  /\ AuthIdle
  /\ env = { RouteKeyName(1) }
  /\ apiKeys = << >>
  /\ image = UploadedImage
  /\ rbpc = "idle"
  /\ keyIndex = 0
  /\ calls = << >>
  /\ response = NoResponse
  /\ RestIdle

NextSource ==
  RemoveBackground \/ KeyAnswers \/ Process \/ Preview \/ Download \/ Pdf \/ SaveCrop

SpecSource == InitSource /\ [][NextSource]_vars

----------------------------------------------------------------------------
(* MemStorage's images and layouts.  An image's id is its place in the      *)
(* order of uploading, so the order by uploadedAt is the order of ids.      *)
(* Layouts are asked for, and images deleted, for the first images only.    *)

MAX_IMAGES == 100
MAX_LAYOUTS == 100
\* the images that generate-layout and delete requests name
RequestedImages == { 1, 2 }

\* cleanup's eviction: sorted ascending, the first size - max go
EvictOldest(ids, max) ==
  IF Cardinality(ids) > max
  THEN { x \in ids : Cardinality({ y \in ids : y < x }) >= Cardinality(ids) - max }
  ELSE ids

\* MemStorage.deleteUploadedImage: the image's layouts
deleteLayoutsOf(store, imageId) ==
  SelectSeq(store, LAMBDA row : row.imageId # imageId)

\* cleanup's eviction of layouts: by id
EvictLayouts(store) ==
  LET kept == EvictOldest({ store[i].id : i \in 1..Len(store) }, MAX_LAYOUTS)
  IN SelectSeq(store, LAMBDA row : row.id \in kept)

otherThanMem ==
  <<layoutVars, backend, users, usersByEmail, now, mails, reply, bgVars,
    presetVars, processed, rendered, clientVars>>

\* POST /api/upload: storage.saveUploadedImage
Upload ==
  /\ uploads < MAX_IMAGES + MaxExtraUploads
  /\ uploads' = uploads + 1
  /\ images' = images \cup { uploads + 1 }
  /\ UNCHANGED <<inflight, layoutResults, pending, verifications>>
  /\ UNCHANGED otherThanMem

\* POST /api/generate-layout up to the awaited image processing: the image
\* is looked up
StartLayout ==
  /\ \E imageId \in RequestedImages :
       /\ imageId \in images
       /\ imageId \notin inflight
       /\ inflight' = inflight \cup { imageId }
  /\ UNCHANGED <<images, uploads, layoutResults, pending, verifications>>
  /\ UNCHANGED otherThanMem

\* POST /api/generate-layout from there: storage.saveLayoutResult
FinishLayout ==
  /\ Len(layoutResults) < MaxMemLayouts
  /\ \E imageId \in inflight, id \in LayoutIds :
       /\ getLayoutResultById(layoutResults, id) = NoLayout
       /\ layoutResults' = saveLayoutResult(layoutResults,
                             [id |-> id, imageId |-> imageId, cropSettings |-> NoCrop])
       /\ inflight' = inflight \ { imageId }
  /\ UNCHANGED <<images, uploads, pending, verifications>>
  /\ UNCHANGED otherThanMem

\* DELETE /api/images/:id: storage.deleteUploadedImage
DeleteUploadedImage ==
  /\ \E imageId \in RequestedImages :
       /\ imageId \in images
       /\ layoutResults' = deleteLayoutsOf(layoutResults, imageId)
       /\ images' = images \ { imageId }
  /\ UNCHANGED <<uploads, inflight, pending, verifications>>
  /\ UNCHANGED otherThanMem

\* MemStorage.cleanup, every five minutes
Cleanup ==
  /\ verifications' = deleteExpiredVerifications("mem", verifications, now)
  /\ pending' = deleteExpiredPendingRegistrations("mem", pending, now)
  /\ images' = EvictOldest(images, MAX_IMAGES)
  /\ layoutResults' = EvictLayouts(layoutResults)
  /\ UNCHANGED <<uploads, inflight>>
  /\ UNCHANGED otherThanMem

InitMem ==
  /\ LayoutIdle
  /\ BackgroundIdle
  /\ RestIdle
  /\ backend = "mem"
  /\ users = << >>
  /\ usersByEmail = << >>
  /\ pending = {}
  /\ now = 0
  /\ mails = {}
  /\ reply = NoReply

NextMem == Upload \/ StartLayout \/ FinishLayout \/ DeleteUploadedImage \/ Cleanup

SpecMem == InitMem /\ [][NextMem]_vars

----------------------------------------------------------------------------
(* The client's generate-layout requests (passport-generator page), with an *)
(* image uploaded and autoPreview on.  Requests are numbered in the order   *)
(* of sending; a request's result is known by the request's number.         *)

otherThanClient ==
  <<layoutVars, authVars, bgVars, presetVars, sourceVars, cleanupVars, memVars>>

\* generateLayoutMutation.mutate: the request is sent
mutate ==
  /\ issued < MaxRequests
  /\ issued' = issued + 1
  /\ outstanding' = outstanding \cup { issued + 1 }

\* photoSettings or borderWidth change: the effect's clean-up clears its
\* timeout and the effect sets a new one
SettingsChange ==
  /\ issued < MaxRequests
  /\ effectTimer' = TRUE
  /\ UNCHANGED <<cropTimers, issued, outstanding, failed, layoutResult>>
  /\ UNCHANGED otherThanClient

\* handleCropChange: cropSettings change, so the effect runs again, and
\* the handler sets a timeout of its own, which nothing clears
HandleCropChange ==
  /\ issued + cropTimers < MaxRequests
  /\ effectTimer' = TRUE
  /\ cropTimers' = cropTimers + 1
  /\ UNCHANGED <<issued, outstanding, failed, layoutResult>>
  /\ UNCHANGED otherThanClient

\* the effect's timeout fires
EffectTimeout ==
  /\ effectTimer
  /\ effectTimer' = FALSE
  /\ mutate
  /\ UNCHANGED <<cropTimers, failed, layoutResult>>
  /\ UNCHANGED otherThanClient

\* a timeout of handleCropChange fires
CropTimeout ==
  /\ cropTimers > 0
  /\ cropTimers' = cropTimers - 1
  /\ mutate
  /\ UNCHANGED <<effectTimer, failed, layoutResult>>
  /\ UNCHANGED otherThanClient

\* a request is answered with a layout result: onSuccess, setLayoutResult(data)
OnSuccess ==
  /\ \E request \in outstanding :
       /\ outstanding' = outstanding \ { request }
       /\ layoutResult' = request
  /\ UNCHANGED <<effectTimer, cropTimers, issued, failed>>
  /\ UNCHANGED otherThanClient

\* a request is answered with an error: onError, a toast
OnError ==
  /\ \E request \in outstanding :
       /\ outstanding' = outstanding \ { request }
       /\ failed' = failed \cup { request }
  /\ UNCHANGED <<effectTimer, cropTimers, issued, layoutResult>>
  /\ UNCHANGED otherThanClient

InitClient ==
  /\ LayoutIdle
  /\ AuthIdle
  /\ BackgroundIdle
  /\ RestIdle

NextClient ==
  \/ SettingsChange
  \/ HandleCropChange
  \/ EffectTimeout
  \/ CropTimeout
  \/ OnSuccess
  \/ OnError

SpecClient == InitClient /\ [][NextClient]_vars

----------------------------------------------------------------------------
(* Properties of the layout calculation *)

Planned == pc = "planned"

\* the width of the planned row at the requested photo size
RequestedRowWidth == singleRowWidth(settings.quantity, plan.requestedWidthPx, plan.spacingPx)

\* the width and height of the planned grid at the final photo size
FinalGridWidth == (plan.photosPerRow * plan.photoWidthPx) + ((plan.photosPerRow - 1) * plan.spacingPx)
FinalGridHeight == (plan.totalRows * plan.photoHeightPx) + ((plan.totalRows - 1) * plan.spacingPx)

\* x is an integer nearest to n / d (d > 0)
Nearest(x, n, d) == (2 * (x * d - n) <= d) /\ (2 * (n - x * d) <= d)

\* C1: for quantity <= 8 the planned single row fits the available area at
\* the final photo size: quantity * width + (quantity - 1) * spacing is at
\* most the available width, and the height is at most the available height.
C1_SingleRowFits ==
  (Planned /\ settings.quantity <= ROW_QUANTITY) =>
    /\ (settings.quantity * plan.photoWidthPx) + ((settings.quantity - 1) * plan.spacingPx)
         <= plan.availableWidth
    /\ plan.photoHeightPx <= plan.availableHeight

\* C2: a plan with more than one row fits the available area after the
\* safety scaling, in width and in height.
C2_GridFits ==
  (Planned /\ plan.totalRows > 1) =>
    /\ FinalGridWidth <= plan.availableWidth
    /\ FinalGridHeight <= plan.availableHeight

\* C3: pageUtilization is greater than 0 and at most 1.
C3_UtilizationInUnitInterval ==
  Planned =>
    /\ plan.pageUtilization.num > 0
    /\ plan.pageUtilization.num <= plan.pageUtilization.den

\* C4: the rows cover the quantity and the last row is not empty:
\* photosPerRow * totalRows >= quantity > photosPerRow * (totalRows - 1).
C4_RowsCoverQuantity ==
  Planned =>
    /\ plan.photosPerRow * plan.totalRows >= settings.quantity
    /\ plan.photosPerRow * (plan.totalRows - 1) < settings.quantity

\* a plan of several rows whose last row is only partly filled
C4_Witness ==
  /\ Planned
  /\ plan.totalRows > 2
  /\ plan.photosPerRow > 1
  /\ plan.photosPerRow * plan.totalRows > settings.quantity

\* C5: the final photo width and height are at most the requested width and
\* height in pixels.
C5_NeverEnlarged ==
  Planned =>
    /\ plan.photoWidthPx <= plan.requestedWidthPx
    /\ plan.photoHeightPx <= plan.requestedHeightPx

\* C6: the gap between photos is round(spacing * DPI / 25.4) pixels in the
\* planner and in the preview and image renderers, and spacing millimetres in
\* the PDF; spacing 0 gives no gap.
C6_GapIsRequestedSpacing ==
  Planned =>
    /\ plan.spacingPx = MmToPx(settings.spacing, DPI)
    /\ ImageSpacingPx(settings) = MmToPx(settings.spacing, DPI)
    /\ PreviewSpacingPx(settings) = MmToPx(settings.spacing, PREVIEW_DPI)
    /\ PdfSpacingMm(settings) = settings.spacing

\* C7: up to 3 photos whose row fits at the requested size keep that size,
\* in one row of quantity photos.
C7_SmallQuantityFitsUnchanged ==
  (Planned /\ settings.quantity <= SMALL_QUANTITY /\ RequestedRowWidth <= plan.availableWidth) =>
    /\ plan.photoWidthPx = plan.requestedWidthPx
    /\ plan.photoHeightPx = plan.requestedHeightPx
    /\ plan.photosPerRow = settings.quantity
    /\ plan.totalRows = 1

\* three photos whose row fits with room to spare
C7_Witness ==
  /\ Planned
  /\ settings.quantity = SMALL_QUANTITY
  /\ RequestedRowWidth < plan.availableWidth
  /\ plan.photoWidthPx = plan.requestedWidthPx

\* C8: 4 to 8 photos are always planned as one row of quantity photos.
C8_RowQuantityOneRow ==
  (Planned /\ settings.quantity > SMALL_QUANTITY /\ settings.quantity <= ROW_QUANTITY) =>
    /\ plan.photosPerRow = settings.quantity
    /\ plan.totalRows = 1

\* 8 photos that do not fit in one row at the requested size, in one row
C8_Witness ==
  /\ Planned
  /\ settings.quantity = ROW_QUANTITY
  /\ RequestedRowWidth > plan.availableWidth
  /\ plan.photosPerRow = ROW_QUANTITY
  /\ plan.totalRows = 1

\* C9: for 4 to 8 photos the final width and height are the requested ones
\* times availableWidth / (row width at the requested size), rounded to a
\* pixel, whether or not the row fits; the safety scaling leaves them alone.
C9_RowQuantityAlwaysScaled ==
  (Planned /\ settings.quantity > SMALL_QUANTITY /\ settings.quantity <= ROW_QUANTITY) =>
    /\ Nearest(plan.photoWidthPx, plan.requestedWidthPx * plan.availableWidth, RequestedRowWidth)
    /\ Nearest(plan.photoHeightPx, plan.requestedHeightPx * plan.availableWidth, RequestedRowWidth)
    /\ plan.photoWidthPx = plan.chosenWidthPx
    /\ plan.photoHeightPx = plan.chosenHeightPx

\* 4 photos whose row fits at the requested size and is scaled all the same
C9_Witness ==
  /\ Planned
  /\ settings.quantity = SMALL_QUANTITY + 1
  /\ RequestedRowWidth < plan.availableWidth
  /\ plan.photoWidthPx > plan.requestedWidthPx

\* C10: for more than 8 photos, photosPerRow is the smaller of quantity and
\* floor((availableWidth + spacing) / (width + spacing)), and totalRows is
\* ceil(quantity / photosPerRow).
C10_MultiRowCounts ==
  (Planned /\ settings.quantity > ROW_QUANTITY) =>
    LET cell == plan.requestedWidthPx + plan.spacingPx
        room == plan.availableWidth + plan.spacingPx
    IN  /\ plan.photosPerRow <= settings.quantity
        /\ plan.photosPerRow * cell <= room
        /\ (plan.photosPerRow = settings.quantity) \/ ((plan.photosPerRow + 1) * cell > room)
        /\ plan.photosPerRow * plan.totalRows >= settings.quantity
        /\ plan.photosPerRow * (plan.totalRows - 1) < settings.quantity

\* more than 8 photos, fewer per row than the quantity, in several rows
C10_Witness ==
  /\ Planned
  /\ settings.quantity > ROW_QUANTITY
  /\ plan.photosPerRow < settings.quantity
  /\ plan.photosPerRow > 1
  /\ plan.totalRows > 1

\* C11: no division of the planner has a zero divisor, and photosPerRow and
\* totalRows are at least 1: width + spacing > 0, the row width at the
\* requested size > 0, at least one photo fits in a row at full size, the
\* grid the safety scaling divides by is positive, and so is the area.
C11_NoZeroDivisor ==
  Planned =>
    /\ plan.requestedWidthPx + plan.spacingPx > 0
    /\ RequestedRowWidth > 0
    /\ plan.availableWidth + plan.spacingPx >= plan.requestedWidthPx + plan.spacingPx
    /\ plan.photosPerRow >= 1
    /\ plan.totalRows >= 1
    /\ (plan.photosPerRow * plan.chosenWidthPx) + ((plan.photosPerRow - 1) * plan.spacingPx) > 0
    /\ (plan.totalRows * plan.chosenHeightPx) + ((plan.totalRows - 1) * plan.spacingPx) > 0
    /\ plan.pageUtilization.den > 0

\* the widest photo with the widest gap, more than 8 of them: one per row
C11_Witness ==
  /\ Planned
  /\ settings.width = MAX_WIDTH
  /\ settings.spacing = MAX_SPACING
  /\ settings.quantity > ROW_QUANTITY
  /\ plan.photosPerRow = 1
  /\ plan.totalRows = settings.quantity

----------------------------------------------------------------------------
(* Properties of the renderers *)

Rendered == page.renderer # "none"

\* the two words of an anchored layout value: 'top-left' is top and left
DashAt(l) == CHOOSE i \in 1..Len(l) : l[i] = "-"
VerticalAnchor(l) == SubSeq(l, 1, DashAt(l) - 1)
HorizontalAnchor(l) == SubSeq(l, DashAt(l) + 1, Len(l))

\* C13: the grid origin follows the anchor rules for all ten layout values:
\* 'auto' centres the grid across the page and within the available height;
\* otherwise left is the side margin, right is page width - side margin -
\* grid width, middle is the horizontal centre, top is the top margin, down
\* is page height - bottom margin - grid height, and middle is the centre of
\* the available height.
C13_AnchorRules ==
  Rendered =>
    LET g == page.geometry
        l == page.layout.settings.layout
        centreX2 == g.pageWidth - g.totalGridWidth
        centreY2 == (2 * g.topMargin) + (g.availableHeight - g.totalGridHeight)
    IN  IF l = Word_auto
        THEN g.startX2 = centreX2 /\ g.startY2 = centreY2
        ELSE /\ HorizontalAnchor(l) = Word_left => g.startX2 = 2 * g.sideMargin
             /\ HorizontalAnchor(l) = Word_right =>
                  g.startX2 = 2 * (g.pageWidth - g.sideMargin - g.totalGridWidth)
             /\ HorizontalAnchor(l) = Word_middle => g.startX2 = centreX2
             /\ VerticalAnchor(l) = Word_top => g.startY2 = 2 * g.topMargin
             /\ VerticalAnchor(l) = Word_down =>
                  g.startY2 = 2 * (g.pageHeight - g.bottomMargin - g.totalGridHeight)
             /\ VerticalAnchor(l) = Word_middle => g.startY2 = centreY2

\* a PDF of a 'middle-left' layout whose grid is narrower than the
\* available width: left is not the centre
C13_Witness ==
  /\ Rendered
  /\ page.renderer = "pdf"
  /\ page.layout.settings.layout = Word_middle \o Dash \o Word_left
  /\ page.geometry.totalGridWidth < page.geometry.availableWidth
  /\ page.geometry.startX2 = 2 * page.geometry.sideMargin

\* C14: the renderer places exactly quantity photos in row-major order:
\* photo k (from 0) is at row floor(k / photosPerRow) and column
\* k mod photosPerRow, at the origin plus that many cells.
C14_RowMajorQuantity ==
  Rendered =>
    LET g == page.geometry
        l == page.layout
    IN  /\ Len(page.photos) = l.settings.quantity
        /\ \A k \in 1..Len(page.photos) :
             LET ph == page.photos[k]
             IN  /\ ph.row = (k - 1) \div l.photosPerRow
                 /\ ph.col = (k - 1) % l.photosPerRow
                 /\ ph.row < l.totalRows
                 /\ ph.x2 - (2 * ph.col * (g.photoWidth + g.spacing)) \in {g.startX2 - 1, g.startX2, g.startX2 + 1}
                 /\ ph.y2 - (2 * ph.row * (g.photoHeight + g.spacing)) \in {g.startY2 - 1, g.startY2, g.startY2 + 1}

\* a page of several rows whose last row is only partly filled
C14_Witness ==
  /\ Rendered
  /\ page.layout.totalRows > 1
  /\ Len(page.photos) = page.layout.settings.quantity
  /\ Len(page.photos) < page.layout.photosPerRow * page.layout.totalRows
  /\ page.photos[Len(page.photos)].row = page.layout.totalRows - 1

\* C15: every photo a renderer places lies on the page, at the size the
\* renderer draws it.
C15_PhotosOnPage ==
  Rendered =>
    \A k \in 1..Len(page.photos) :
      /\ 0 <= page.photos[k].x2
      /\ page.photos[k].x2 + (2 * page.geometry.photoWidth) <= 2 * page.geometry.pageWidth
      /\ 0 <= page.photos[k].y2
      /\ page.photos[k].y2 + (2 * page.geometry.photoHeight) <= 2 * page.geometry.pageHeight

----------------------------------------------------------------------------
(* Properties of the accounts *)

\* user i is an account with authProvider 'email' in the record list us
IsEmailAccount(us, i) ==
  i \in DOMAIN us /\ us[i].authProvider = "email"

\* an account with authProvider 'email' for the address that was not there
\* before the step is there after it
EmailAccountAppears(email) ==
  \E i \in DOMAIN users' :
    /\ IsEmailAccount(users', i)
    /\ users'[i].email = email
    /\ ~ (IsEmailAccount(users, i) /\ users[i].email = email)

AllEmails ==
  SignupEmails \cup { DeletedEmail(id) : id \in 1..MaxUsers }

\* C16: an account with authProvider 'email' for an address comes into
\* being only in a verifyEmail call for that address whose code is the code
\* of a stored pending registration for the address that expires later than
\* the time of the call; registerUser and resendVerificationCode leave
\* the user accounts' number and providers as they are.
C16_EmailAccountOnlyByVerification ==
  [][ /\ \A email \in AllEmails :
          EmailAccountAppears(email) =>
            \E code \in Codes :
              /\ VerifyEmail(email, code)
              /\ \E p \in pending : /\ p.email = email
                                     /\ p.verificationCode = code
                                     /\ p.expiresAt > now
      /\ (Register \/ Resend) =>
            /\ Len(users') = Len(users)
            /\ \A i \in DOMAIN users :
                 users'[i].authProvider = users[i].authProvider
    ]_vars

\* an e-mail account exists, made by the verifyEmail call just answered,
\* after the clock has moved
C16_Witness ==
  /\ reply.success
  /\ reply.message = MsgVerified
  /\ now > 0
  /\ \E i \in DOMAIN users : /\ IsEmailAccount(users, i)
                              /\ users[i].email = reply.email

\* the pending registrations of an address
PendingFor(store, email) ==
  { p \in store : p.email = email }

\* a verified user record holds the address
VerifiedHolds(email) ==
  \E i \in DOMAIN users : users[i].email = email /\ users[i].isEmailVerified

\* registerUser is called for an address that has a pending registration
\* and no verified account
ReRegisters(email) ==
  /\ PendingFor(pending, email) # {}
  /\ ~ VerifiedHolds(email)
  /\ \E password \in Passwords : RegisterUser(email, password)

\* the call succeeded and left exactly one pending registration for the
\* address, with the code it mailed
ReRegistered(email) ==
  /\ reply' = Reply(email, reply'.code, TRUE, MsgCheckEmail)
  /\ \E p \in pending' : /\ PendingFor(pending', email) = { p }
                          /\ p.verificationCode = reply'.code

\* C17 as stated: a second registerUser for an address with a pending
\* registration and no verified account succeeds, leaves exactly one
\* pending registration for the address, carrying the newest code, and
\* verifyEmail with the earlier code would find no registration.
C17_ReRegisterAsStated ==
  [][ \A email \in SignupEmails :
        ReRegisters(email) =>
          /\ ReRegistered(email)
          /\ \A earlier \in PendingFor(pending, email) :
               getPendingRegistration(pending', email,
                                      earlier.verificationCode, now') = {}
    ]_vars

\* C17, amended: the same, but verifyEmail with the earlier code finds no
\* registration only when the newest code differs from the earlier one;
\* generateVerificationCode draws each code anew and may draw the same.
C17_ReRegister ==
  [][ \A email \in SignupEmails :
        ReRegisters(email) =>
          /\ ReRegistered(email)
          /\ \A earlier \in PendingFor(pending, email) :
               earlier.verificationCode # reply'.code =>
                 getPendingRegistration(pending', email,
                                        earlier.verificationCode, now') = {}
    ]_vars

\* registerUser has just answered for an address that was mailed another
\* code before: one pending registration, with the code of the answer
C17_Witness ==
  \E email \in SignupEmails :
    /\ reply = Reply(email, reply.code, TRUE, MsgCheckEmail)
    /\ \E m \in mails : m[1] = email /\ m[2] # reply.code
    /\ \E p \in pending : /\ PendingFor(pending, email) = { p }
                           /\ p.verificationCode = reply.code

\* verifyEmail has succeeded for the address: the account it created, the
\* only kind of record with a password hash, is there
VerifiedBefore(email) ==
  \E i \in DOMAIN users : /\ users[i].email = email
                          /\ users[i].passwordHash # NoHash

\* C18: when verifyEmail succeeds for an address no pending registration
\* for the address remains, and once it has succeeded a verifyEmail for
\* the address with a code that was mailed to it answers 'Invalid or
\* expired verification code' and leaves the users as they are.
C18_CodeUsedOnce ==
  [][ \A email \in SignupEmails, code \in Codes :
        VerifyEmail(email, code) =>
          /\ reply'.success => PendingFor(pending', email) = {}
          /\ (VerifiedBefore(email) /\ <<email, code>> \in mails) =>
               /\ reply' = Reply(email, code, FALSE, MsgInvalidCode)
               /\ users' = users
    ]_vars

\* verifyEmail has just refused a code that was mailed to an address whose
\* account exists
C18_Witness ==
  /\ reply = Reply(reply.email, reply.code, FALSE, MsgInvalidCode)
  /\ VerifiedBefore(reply.email)
  /\ <<reply.email, reply.code>> \in mails
  /\ PendingFor(pending, reply.email) = {}

\* C19: registerUser answers 'An account with this email already exists'
\* exactly when a verified user record holds the address, and then leaves
\* users and pending registrations as they are; a record that is not
\* verified does not block.
C19_OnlyVerifiedBlocks ==
  [][ \A email \in SignupEmails, password \in Passwords :
        RegisterUser(email, password) =>
          /\ (reply'.message = MsgAlreadyExists) <=> VerifiedHolds(email)
          /\ reply'.message = MsgAlreadyExists =>
               /\ users' = users
               /\ pending' = pending
    ]_vars

\* registerUser has just accepted the address of an unverified record: the
\* record gave the address up and the registration is pending
C19_Witness ==
  /\ reply = Reply(reply.email, reply.code, TRUE, MsgCheckEmail)
  /\ PendingFor(pending, reply.email) # {}
  /\ \E i \in DOMAIN users : /\ users[i].email = DeletedEmail(i)
                              /\ ~ users[i].isEmailVerified
  /\ reply.email = GuestEmail(1)

----------------------------------------------------------------------------
(* Properties of the background removal *)

\* the first call that succeeded, 0 if none did
FirstOk ==
  IF \E j \in DOMAIN calls : calls[j].ok
  THEN CHOOSE j \in DOMAIN calls : calls[j].ok /\ \A k \in 1..(j - 1) : ~ calls[k].ok
  ELSE 0

\* C20: the keys are called in list order, each at most once; no key is
\* called after the first call that succeeded; the request answers
\* success with apiKeyUsed = n exactly when the n-th key's call is the
\* first that succeeded; it answers 'all API keys exhausted' only when
\* every configured key was called and failed, and then the image's
\* backgroundRemovedFilename is as it was.
C20_KeysInOrderUntilFirstSuccess ==
  /\ Len(calls) <= Len(apiKeys)
  /\ \A j \in DOMAIN calls : calls[j].key = apiKeys[j]
  /\ FirstOk # 0 => Len(calls) = FirstOk
  /\ rbpc = "done" =>
       /\ FirstOk # 0 <=> response.status = 200
       /\ response.status = 200 => response.apiKeyUsed = FirstOk
       /\ response = Failure(500, MsgExhausted) =>
            /\ Len(calls) = Len(apiKeys)
            /\ \A j \in DOMAIN calls : ~ calls[j].ok
            /\ image.backgroundRemovedFilename = NoFilename

\* process.env when autoSetupSecrets has run and nothing else is set
SetupEnv ==
  { <<"REPLIT_APP_URL", 0>>, <<"SESSION_SECRET", 0>> }
    \cup { SetupKeyName(index) : index \in 0..(KEY_COUNT - 1) }

\* C21: when the secrets setup has stored its ten Remove.bg keys and no
\* other variable is set, a remove-background request for a stored image
\* finds at least one key and does not answer 'No Remove.bg API keys
\* configured'.
C21_SetupKeysFound ==
  (env = SetupEnv /\ rbpc # "idle" /\ response # Failure(404, MsgImageNotFound)) =>
    /\ Len(apiKeys) >= 1
    /\ response # Failure(500, MsgNoKeys)

----------------------------------------------------------------------------
(* Properties of the presets *)

\* C22: a listing for a user holds only that user's presets, and a preset
\* request made by a user leaves every preset of another user in the
\* store, as it was.
C22_PresetsUserSpecific ==
  [][ \A userId \in PresetUsers :
        /\ GetPresets(userId) =>
             \A p \in presetReply'.presets : p.userId = userId
        /\ PresetRequestBy(userId) =>
             \A p \in presets : p.userId # userId => p \in presets'
    ]_vars

\* a Google sign-in has run for the address's e-mail/password account:
\* only verifyEmail stores a password hash, only the Google sign-in sets
\* the provider of a record that has one
GoogleTookOver(email) ==
  \E i \in DOMAIN users :
     /\ users[i].email = email
     /\ users[i].authProvider = "google"
     /\ users[i].passwordHash # NoHash

\* the record loginUser accepts for the address and the password
AcceptedUser(email, password) ==
  \E i \in DOMAIN users :
     /\ users[i].email = email
     /\ users[i].authProvider = "email"
     /\ users[i].isEmailVerified
     /\ verifyPassword(password, users[i].passwordHash)

\* C25: loginUser succeeds only for a stored user with provider 'email',
\* verified, whose password hash matches; and after a Google sign-in for an
\* e-mail/password account every loginUser for the address is answered
\* 'registered with a different sign-in method'.
C25_LoginOnlyEmailAccounts ==
  [][ \A email \in SignupEmails, password \in LoginPasswords :
        LoginUser(email, password) =>
          /\ reply'.success => AcceptedUser(email, password)
          /\ GoogleTookOver(email) =>
               ~ reply'.success /\ reply'.message = MsgDifferentMethod
    ]_vars

\* a login was refused for an account that Google took over
C25_Witness ==
  /\ reply.message = MsgDifferentMethod
  /\ GoogleTookOver(reply.email)

\* C29: no two user accounts hold the same e-mail, whatever the order of
\* registerUser, verifyEmail and Google sign-in calls.
C29_OneAccountPerEmail ==
  \A i, j \in DOMAIN users :
     users[i].email = users[j].email => i = j

----------------------------------------------------------------------------
(* Properties of the expiry *)

\* C26: in every state the storage can be in, deleteExpiredPendingRegistrations
\* leaves exactly the registrations with expiresAt > now and
\* deleteExpiredVerifications exactly the used verifications and those with
\* expiresAt > now, for DatabaseStorage and for MemStorage alike.
C26_ExpiredDeletedAlike ==
  \A storage \in {"db", "mem"} :
     /\ deleteExpiredPendingRegistrations(storage, pending, now)
          = { p \in pending : p.expiresAt > now }
     /\ deleteExpiredVerifications(storage, verifications, now)
          = { v \in verifications : v.used \/ v.expiresAt > now }

----------------------------------------------------------------------------
(* Properties of the source file *)

\* a crop was saved over the original
CropSaved == image.exists /\ image.filename # UploadFilename

\* the step is a generate-layout, preview or image download that succeeds
ReadsSource ==
  /\ rendered' # rendered
  /\ rendered'.by \in { "layout", "preview", "image" }
  /\ rendered'.status = 200

\* C23: once a crop was saved with replaceOriginal, every generate-layout,
\* preview and image download that succeeds reads the cropped file (or the
\* file a later background removal made of it), also when the background
\* was removed before the crop was saved.
C23_CroppedFileIsSource ==
  [][ (CropSaved /\ ReadsSource) =>
        rendered'.source \in { image.filename, BgRemovedFilename(image.filename) }
    ]_vars

\* what each download shows of a layout of the image, where it succeeds
Contents(layout) ==
  { SourceContent(layout) }
    \cup (IF ProcessedFilename(image.filename) \in DOMAIN processed
          THEN { ProcessedContent(layout) } ELSE {})

\* C24: for every saved layout the PDF, the image download and the preview
\* show the same content: the same source file with the layout's crop
\* settings applied.
C24_SameContent ==
  \A i \in 1..Len(layoutResults) :
     image.exists =>
       Contents(layoutResults[i]) =
         { [source |-> sourceFilename(image), cropSettings |-> layoutResults[i].cropSettings] }

\* the rows of the image, in the order of saving
LayoutsOf(imageId) ==
  SelectSeq(layoutResults, LAMBDA row : row.imageId = imageId)

\* C27: after any sequence of saveLayoutResult calls, getLayoutResult gives
\* the image's layout that was saved last, and so does a renderer that is
\* given no layoutId.
C27_LatestLayout ==
  LayoutsOf(ImageId) # << >> =>
    /\ getLayoutResult(layoutResults, ImageId)
         = LayoutsOf(ImageId)[Len(LayoutsOf(ImageId))]
    /\ FindLayout(NoLayoutId) = LayoutsOf(ImageId)[Len(LayoutsOf(ImageId))]

----------------------------------------------------------------------------
(* Properties of MemStorage's images and layouts *)

\* C28: every stored layout's imageId is the id of a stored image.
C28_LayoutsReferToImages ==
  \A i \in 1..Len(layoutResults) : layoutResults[i].imageId \in images

----------------------------------------------------------------------------
(* Properties of the client *)

\* C30: when no generate-layout request is outstanding and the request sent
\* last was answered with a result, layoutResult is that request's result.
C30_LastRequestShown ==
  (outstanding = {} /\ issued > 0 /\ issued \notin failed) =>
    layoutResult = issued

====
